---- MODULE Spec2Model ----
(***************************************************************************)
(* Model of the xumo_tv Home Assistant integration:                        *)
(*   - ensure_pin_format (config_flow.py), the PIN validation and          *)
(*     normalisation routine, on strings modelled as sequences of          *)
(*     characters;                                                         *)
(*   - HomekitControllerFlowHandler (config_flow.py), the pairing config   *)
(*     flow, one action per step handler;                                  *)
(*   - HomeKitTelevision.state (media_player.py).                          *)
(* The aiohomekit library and the Home Assistant host are the environment: *)
(* every call into them returns or raises nondeterministically.            *)
(***************************************************************************)
EXTENDS Integers, Sequences, FiniteSets, TLC

VARIABLES
    \* ---- ensure_pin_format: the last call's arguments and outcome
    pin,            \* the pin argument, a sequence of characters
    edits,          \* how many single-character edits the typed pin has had
    allow,          \* the allow_insecure_setup_codes argument
    pinResult,      \* [kind, value]: "not_called", "return" or the exception
    \* ---- HomekitControllerFlowHandler
    controller,     \* self.controller is set
    devices,        \* self.devices: the discoveries offered, keyed by name
    hkid,           \* self.hkid ("None" until the user step sets it)
    unique_id,      \* the unique id registered by async_set_unique_id
    category,       \* self.category
    finish_pairing, \* self.finish_pairing: 0 is None, n the callable that
                    \* the n-th async_start_pairing returned
    pairing,        \* self.pairing
    starts,         \* how many async_find + async_start_pairing attempts ran
    storage,        \* entity storage: accessory maps written
    entries,        \* config entries created
    step,           \* the step the host calls next (the last form shown)
    result,         \* the ConfigFlowResult of the last step invocation
    inv,            \* what the last step invocation did (history)
    \* ---- HomeKitTelevision
    active,         \* value of the ACTIVE characteristic
    media,          \* value of the CURRENT_MEDIA_STATE characteristic
    tvState         \* the last read of the state property

pinVars  == <<pin, edits, allow, pinResult>>
flowVars == <<controller, devices, hkid, unique_id, category, finish_pairing,
              pairing, starts, storage, entries, step, result, inv>>
tvVars   == <<active, media, tvState>>
vars     == <<pinVars, flowVars, tvVars>>

None == "None"

(***************************************************************************)
(* Characters and strings                                                  *)
(***************************************************************************)
\* str.strip() with no argument removes whitespace; three such characters
Whitespace == {" ", "\t", "\n"}

\* \d of a str pattern matches every Unicode decimal digit: the ASCII ones
\* and, as a sample of the others, ARABIC-INDIC DIGIT THREE
AsciiDigits == {"0", "1", "2", "3", "4", "5", "6", "7", "8", "9"}
UnicodeDigits == {"U+0663"}
IsDigit(c) == c \in AsciiDigits \cup UnicodeDigits

RECURSIVE LStrip(_)
LStrip(s) ==
    IF s # <<>> /\ Head(s) \in Whitespace THEN LStrip(Tail(s)) ELSE s

RECURSIVE RStrip(_)
RStrip(s) ==
    IF s # <<>> /\ s[Len(s)] \in Whitespace
    THEN RStrip(SubSeq(s, 1, Len(s) - 1))
    ELSE s

\* pin.strip()
Strip(s) == RStrip(LStrip(s))

\* "".join / "-".join of the three groups
JoinGroups(sep, g) == g[1] \o sep \o g[2] \o sep \o g[3]

Str8(a, b, c, d, e, f, g, h) == <<a, b, c, d, e, f, g, h>>

INSECURE_CODES == {
    Str8("0", "0", "0", "0", "0", "0", "0", "0"),
    Str8("1", "1", "1", "1", "1", "1", "1", "1"),
    Str8("2", "2", "2", "2", "2", "2", "2", "2"),
    Str8("3", "3", "3", "3", "3", "3", "3", "3"),
    Str8("4", "4", "4", "4", "4", "4", "4", "4"),
    Str8("5", "5", "5", "5", "5", "5", "5", "5"),
    Str8("6", "6", "6", "6", "6", "6", "6", "6"),
    Str8("7", "7", "7", "7", "7", "7", "7", "7"),
    Str8("8", "8", "8", "8", "8", "8", "8", "8"),
    Str8("9", "9", "9", "9", "9", "9", "9", "9"),
    Str8("1", "2", "3", "4", "5", "6", "7", "8"),
    Str8("8", "7", "6", "5", "4", "3", "2", "1") }

(***************************************************************************)
(* PIN_FORMAT = re.compile(r"^(\d{3})-{0,1}(\d{2})-{0,1}(\d{3})$")         *)
(* The pattern has no choice point (a dash is no digit), so the match is   *)
(* one left-to-right scan.  A position past the end matches nothing.       *)
(***************************************************************************)
\* \d{n} at position i of s
DigitsAt(s, i, n) ==
    /\ i + n - 1 <= Len(s)
    /\ \A k \in i .. (i + n - 1) : IsDigit(s[k])

\* -{0,1} at position i of s: the position after it
MaxDashes == 1
RECURSIVE SkipDashes(_, _, _)
SkipDashes(s, i, n) ==
    IF n > 0 /\ i <= Len(s) /\ s[i] = "-" THEN SkipDashes(s, i + 1, n - 1) ELSE i

\* (mutant of AtEnd: the pattern without its $)
AtEnd_Missing(s, i) == TRUE

\* $ (no MULTILINE): the end of the string, or just before a final newline
AtEnd(s, i) == i = Len(s) + 1 \/ (i = Len(s) /\ s[i] = "\n")

\* PIN_FORMAT.search(s): the three groups, or NoMatch (None)
NoMatch == <<>>
PinFormatSearch(s) ==
    IF ~DigitsAt(s, 1, 3) THEN NoMatch
    ELSE LET i2 == SkipDashes(s, 4, MaxDashes) IN
         IF ~DigitsAt(s, i2, 2) THEN NoMatch
         ELSE LET i3 == SkipDashes(s, i2 + 2, MaxDashes) IN
              IF ~DigitsAt(s, i3, 3) THEN NoMatch
              ELSE IF ~AtEnd(s, i3 + 3) THEN NoMatch
              ELSE <<SubSeq(s, 1, 3), SubSeq(s, i2, i2 + 1), SubSeq(s, i3, i3 + 2)>>

\* the values of allow_insecure_setup_codes: the key absent from pair_info
\* (pair_info.get gives None), None, and some falsy and truthy values
AllowValues == {"absent", "None", "False", "True", "0", "1"}
Truthy(a) == a \in {"True", "1"}

Returned(v) == [kind |-> "return", value |-> v]
Raised(e) == [kind |-> e, value |-> <<>>]
NotCalled == [kind |-> "not_called", value |-> <<>>]

\* (mutant of FormatPin: the groups joined without the dashes)
FormatPin_NoDashes(groups) == JoinGroups(<<>>, groups)

\* "-".join(match.groups())
FormatPin(groups) == JoinGroups(<<"-">>, groups)

\* (mutant of IsRejectedInsecure: "allow_insecure_setup_codes is None"
\* in place of "not allow_insecure_setup_codes")
IsRejectedInsecure_OnlyNone(a, digits) == a = "None" /\ digits \in INSECURE_CODES

\* not allow_insecure_setup_codes and pin_without_dashes in INSECURE_CODES
IsRejectedInsecure(a, digits) == ~Truthy(a) /\ digits \in INSECURE_CODES

ensure_pin_format(p, a) ==
    LET match == PinFormatSearch(Strip(p)) IN
    IF match = NoMatch THEN Raised("MalformedPinError")
    ELSE LET pin_without_dashes == JoinGroups(<<>>, match) IN
         IF IsRejectedInsecure(a, pin_without_dashes)
         THEN Raised("InsecureSetupCode")
         ELSE Returned(FormatPin(match))

(***************************************************************************)
(* Direct calls of ensure_pin_format.  The caller types a code (8 digits,  *)
(* each dash present or not), may mistype it by single-character edits,    *)
(* and calls the function with some allow_insecure_setup_codes.            *)
(***************************************************************************)
MaxEdits == 1

Dash(b) == IF b THEN <<"-">> ELSE <<>>
Layout(d, b1, b2) ==
    SubSeq(d, 1, 3) \o Dash(b1) \o SubSeq(d, 4, 5) \o Dash(b2) \o SubSeq(d, 6, 8)

\* the digit strings typed: insecure ones and others
TypedDigits == {
    Str8("1", "1", "1", "1", "1", "1", "1", "1"),
    Str8("1", "2", "3", "4", "5", "6", "7", "8"),
    Str8("1", "2", "3", "4", "5", "6", "7", "9"),
    Str8("U+0663", "1", "4", "1", "5", "9", "2", "6") }

\* the characters a typing slip puts in
SlipChars == {"-", " ", "a", "7"}

DeleteAt(s, i) == SubSeq(s, 1, i - 1) \o SubSeq(s, i + 1, Len(s))
InsertAt(s, i, c) == SubSeq(s, 1, i - 1) \o <<c>> \o SubSeq(s, i, Len(s))
ReplaceAt(s, i, c) == SubSeq(s, 1, i - 1) \o <<c>> \o SubSeq(s, i + 1, Len(s))

PinInit ==
    /\ pin = <<>>
    /\ edits = 0
    /\ allow = "absent"
    /\ pinResult = NotCalled

TypePin ==
    \E d \in TypedDigits, b1, b2 \in BOOLEAN :
        /\ pin' = Layout(d, b1, b2)
        /\ edits' = 0
        /\ pinResult' = NotCalled
        /\ UNCHANGED allow

EditPin ==
    /\ edits < MaxEdits
    /\ edits' = edits + 1
    /\ pinResult' = NotCalled
    /\ UNCHANGED allow
    /\ \/ \E i \in 1 .. Len(pin) : pin' = DeleteAt(pin, i)
       \/ \E i \in 1 .. Len(pin) + 1, c \in SlipChars : pin' = InsertAt(pin, i, c)
       \/ \E i \in 1 .. Len(pin), c \in SlipChars : pin' = ReplaceAt(pin, i, c)

CallEnsurePinFormat ==
    /\ pinResult = NotCalled
    /\ \E a \in AllowValues :
        /\ allow' = a
        /\ pinResult' = ensure_pin_format(pin, a)
    /\ UNCHANGED <<pin, edits>>


(***************************************************************************)
(* HomeKitTelevision.state (media_player.py).  A characteristic value is   *)
(* NoValue (None) or <<n>>, the number the accessory reported.             *)
(***************************************************************************)
MaxCharValue == 3

NoValue == <<>>
CharValues == {NoValue} \cup {<<n>> : n \in 0 .. MaxCharValue}

\* "not v" of a characteristic value: None and 0 are falsy
Falsy(v) == v = NoValue \/ v[1] = 0

\* aiohomekit's CurrentMediaStateValues, the keys of HK_TO_HA_STATE
CurrentMediaStateValues == [PLAYING |-> 0, PAUSED |-> 1, STOPPED |-> 2]

\* HK_TO_HA_STATE.get(homekit_state, default)
HK_TO_HA_STATE_get(homekit_state, default) ==
    CASE homekit_state = CurrentMediaStateValues.PLAYING -> "playing"
      [] homekit_state = CurrentMediaStateValues.PAUSED -> "paused"
      [] homekit_state = CurrentMediaStateValues.STOPPED -> "idle"
      [] OTHER -> default

\* (mutant of HasMediaState: "if homekit_state" in place of
\* "if homekit_state is not None")
HasMediaState_Truthy(homekit_state) == ~Falsy(homekit_state)

\* "homekit_state is not None"
HasMediaState(homekit_state) == homekit_state # NoValue

\* the state property
state(act, homekit_state) ==
    IF Falsy(act) THEN "off"
    ELSE IF HasMediaState(homekit_state)
         THEN HK_TO_HA_STATE_get(homekit_state[1], "on")
         ELSE "on"

Unread == [active |-> NoValue, media |-> NoValue, value |-> "unread"]

TvInit ==
    /\ active = NoValue
    /\ media = NoValue
    /\ tvState = Unread

\* the accessory reports a new value of ACTIVE
UpdateActive ==
    /\ \E v \in CharValues : active' = v
    /\ UNCHANGED <<media, tvState>>

\* the accessory reports a new value of CURRENT_MEDIA_STATE
UpdateMediaState ==
    /\ \E v \in CharValues : media' = v
    /\ UNCHANGED <<active, tvState>>

\* the host reads the state property
ReadState ==
    /\ tvState' = [active |-> active, media |-> media,
                   value |-> state(active, media)]
    /\ UNCHANGED <<active, media>>


(***************************************************************************)
(* HomekitControllerFlowHandler (config_flow.py)                           *)
(***************************************************************************)
MaxStarts == 2

UpperToLower == [A |-> "a", B |-> "b", M |-> "m", O |-> "o", T |-> "t",
                 U |-> "u", V |-> "v", X |-> "x", Y |-> "y"]
LowerChar(c) == IF c \in DOMAIN UpperToLower THEN UpperToLower[c] ELSE c

\* str.lower()
Lower(s) == [i \in 1 .. Len(s) |-> LowerChar(s[i])]

\* s.find(sub) > -1
Contains(s, sub) ==
    \E i \in 1 .. (Len(s) - Len(sub) + 1) : SubSeq(s, i, i + Len(sub) - 1) = sub

normalize_hkid(id) == Lower(id)

\* discovery.description.name.lower().find("xumo") > -1
IsXumo(name) == Contains(Lower(name), <<"x", "u", "m", "o">>)

\* what controller.async_discover() can yield: [name, id, paired, category]
Discoverable == {
    [name |-> <<"X", "u", "m", "o">>, id |-> <<"A", "B", ":", "0", "1">>,
     paired |-> FALSE, category |-> "TELEVISION"],
    [name |-> <<"M", "y", " ", "X", "U", "M", "O">>, id |-> <<"a", "b", ":", "0", "2">>,
     paired |-> FALSE, category |-> "TELEVISION"],
    [name |-> <<"T", "V">>, id |-> <<"A", "B", ":", "0", "3">>,
     paired |-> FALSE, category |-> "TELEVISION"],
    [name |-> <<"x", "u", "m", "o", "2">>, id |-> <<"A", "B", ":", "0", "4">>,
     paired |-> TRUE, category |-> "TELEVISION"] }

NoId == <<>>
NoDevices == <<>>

\* ConfigFlowResult
NoResult ==
    [type |-> "none", step_id |-> "", error |-> "none", reason |-> "",
     allow_field |-> FALSE]
\* async_show_form of the pair step builds the schema: the
\* allow_insecure_setup_codes field is there after an insecure_setup_code error
_async_step_pair_show_form(error) ==
    [type |-> "form", step_id |-> "pair", error |-> error, reason |-> "",
     allow_field |-> (error = "insecure_setup_code")]
async_show_form(step_id) ==
    [type |-> "form", step_id |-> step_id, error |-> "none", reason |-> "",
     allow_field |-> FALSE]
async_abort(reason) ==
    [type |-> "abort", step_id |-> "", error |-> "none", reason |-> reason,
     allow_field |-> FALSE]
async_create_entry ==
    [type |-> "create_entry", step_id |-> "", error |-> "none", reason |-> "",
     allow_field |-> FALSE]

\* the step the host calls next: the step of the form shown, or none
NextStep(r) == IF r.type = "form" THEN r.step_id ELSE "done"

\* what a step invocation did
NoInv ==
    [handler |-> "none", pair_ran |-> FALSE, fp_before |-> 0,
     allow_key |-> "absent",
     ensure_called |-> FALSE, finish_called |-> FALSE, finish_arg |-> <<>>,
     finish_returned |-> FALSE, raised1 |-> "none",
     start_calls |-> 0, raised2 |-> "none",
     stored |-> FALSE, created |-> FALSE]

FlowInit ==
    /\ controller = FALSE
    /\ devices = NoDevices
    /\ hkid = NoId
    /\ unique_id = NoId
    /\ category = None
    /\ finish_pairing = 0
    /\ pairing = FALSE
    /\ starts = 0
    /\ storage = {}
    /\ entries = {}
    /\ step = "user"
    /\ result = NoResult
    /\ inv = NoInv

\* the exceptions the pairing library's calls raise
LibraryErrors ==
    {"AuthenticationError", "UnknownError", "MaxPeersError",
     "AccessoryNotFoundError", "MalformedPinError", "BusyError",
     "MaxTriesError", "UnavailableError", "IndexError", "OtherError"}

\* pair_info: None, an empty mapping, or a submitted form
PairInfoNone == [kind |-> "None", pairing_code |-> <<>>, allow |-> "absent"]
PairInfoEmpty == [kind |-> "empty", pairing_code |-> <<>>, allow |-> "absent"]
PairInfoCode(code, a) == [kind |-> "code", pairing_code |-> code, allow |-> a]

\* the codes submitted to the pair step
D111 == Str8("1", "1", "1", "1", "1", "1", "1", "1")
D678 == Str8("1", "2", "3", "4", "5", "6", "7", "8")
D679 == Str8("1", "2", "3", "4", "5", "6", "7", "9")
SubmittedCodes ==
    {Layout(D679, TRUE, TRUE), <<" ">> \o Layout(D679, FALSE, TRUE),
     Layout(D111, TRUE, TRUE), Layout(D111, TRUE, FALSE),
     Layout(D678, FALSE, FALSE),
     <<>>, InsertAt(D111, 5, "-")}
SubmittedAllow == {"absent", "None", "False", "True"}
PairInfos ==
    {PairInfoNone, PairInfoEmpty}
    \cup {PairInfoCode(c, a) : c \in SubmittedCodes, a \in SubmittedAllow}


(***************************************************************************)
(* async_step_pair, first half: finishing a pairing with a submitted code  *)
(***************************************************************************)
\* the entry condition: "if pair_info and self.finish_pairing"
EntersFinish(pair_info) == pair_info.kind = "code" /\ finish_pairing # 0

\* _entry_from_accessory: the library calls before the accessory map is
\* written (get_primary_name, close) raise library errors, three of them
\* here, one for each kind of except clause; after the map is written, the
\* lookups of pairing_data["AccessoryIPs"] and get_mac_address raise other
\* exceptions
BuildErrors == {"AccessoryNotFoundError", "AuthenticationError", "OtherError"}
BuildOutcomes ==
    {[stage |-> "ok", error |-> "none"]}
    \cup {[stage |-> "before_store", error |-> e] : e \in BuildErrors}
    \cup {[stage |-> "after_store", error |-> "OtherError"]}

\* entity_storage.async_create_or_update_map has run
StoresMap(build) == build.stage \in {"after_store", "ok"}

\* (mutant of FinishErrorKey: the UnknownError clause reports
\* authentication_error)
FinishErrorKey_UnknownAsAuth(e) ==
    CASE e \in {"MalformedPinError", "AuthenticationError", "UnknownError"}
             -> "authentication_error"
      [] e = "MaxPeersError" -> "max_peers_error"
      [] e = "InsecureSetupCode" -> "insecure_setup_code"
      [] OTHER -> "pairing_failed"

\* the except clauses, in order: the errors["pairing_code"] each one sets
FinishErrorKey(e) ==
    CASE e = "MalformedPinError" -> "authentication_error"
      [] e = "AuthenticationError" -> "authentication_error"
      [] e = "UnknownError" -> "unknown_error"
      [] e = "MaxPeersError" -> "max_peers_error"
      [] e = "InsecureSetupCode" -> "insecure_setup_code"
      [] OTHER -> "pairing_failed"

\* the clause that returns async_abort
FinishErrorAborts(e) == e = "AccessoryNotFoundError"

\* (mutant of FinishErrorClears: the MalformedPinError and InsecureSetupCode
\* clauses clear self.finish_pairing too)
FinishErrorClears_Rejected(e) == e # "AccessoryNotFoundError"

\* the clauses that set self.finish_pairing = None
FinishErrorClears(e) ==
    e \notin {"MalformedPinError", "InsecureSetupCode", "AccessoryNotFoundError"}

\* pair_info.get("allow_insecure_setup_codes"): None for an absent key
GetAllow(pair_info) == IF pair_info.allow = "absent" THEN "None" ELSE pair_info.allow

\* the try body and its except clauses, given what the try body did
FinishHandled(pair_info, pr, fcalled, freturned, raised, stored, created) ==
    [entered |-> TRUE,
     pin |-> pair_info.pairing_code, allow |-> GetAllow(pair_info), pinResult |-> pr,
     finish_called |-> fcalled, finish_returned |-> freturned,
     finish_arg |-> IF fcalled THEN pr.value ELSE <<>>,
     raised |-> raised, stored |-> stored, created |-> created,
     returns |-> IF raised = "none" THEN async_create_entry
                 ELSE IF FinishErrorAborts(raised)
                      THEN async_abort("accessory_not_found_error")
                      ELSE NoResult,
     fp |-> IF raised # "none" /\ FinishErrorClears(raised)
            THEN 0 ELSE finish_pairing,
     error |-> IF raised # "none" /\ ~FinishErrorAborts(raised)
               THEN FinishErrorKey(raised) ELSE "none"]

\* the ways the first half runs
FinishPhase(pair_info) ==
    IF ~EntersFinish(pair_info)
    THEN {[entered |-> FALSE,
           pin |-> <<>>, allow |-> "absent", pinResult |-> NotCalled,
           finish_called |-> FALSE, finish_returned |-> FALSE,
           finish_arg |-> <<>>,
           raised |-> "none", stored |-> FALSE, created |-> FALSE,
           returns |-> NoResult, fp |-> finish_pairing, error |-> "none"]}
    ELSE LET pr == ensure_pin_format(pair_info.pairing_code, GetAllow(pair_info)) IN
         IF pr.kind # "return"
         THEN {FinishHandled(pair_info, pr, FALSE, FALSE, pr.kind, FALSE, FALSE)}
         ELSE {FinishHandled(pair_info, pr, TRUE, FALSE, e, FALSE, FALSE) :
                   e \in LibraryErrors}
              \cup {FinishHandled(pair_info, pr, TRUE, TRUE, b.error,
                                  StoresMap(b), b.stage = "ok") :
                        b \in BuildOutcomes}

(***************************************************************************)
(* async_step_pair, second half: starting a pairing                        *)
(***************************************************************************)
\* (mutant of EntersStart: a pairing is started only when no code was
\* submitted)
EntersStart_OnlyWithoutCode(b1) ==
    b1.returns.type = "none" /\ b1.fp = 0 /\ ~b1.entered

\* "if not self.finish_pairing", reached when the first half did not return
EntersStart(b1) == b1.returns.type = "none" /\ b1.fp = 0

\* (mutant of StartErrorResult: the UnavailableError clause is missing)
StartErrorResult_NoUnavailable(e) ==
    CASE e = "BusyError" -> async_show_form("busy_error")
      [] e = "MaxTriesError" -> async_show_form("max_tries_error")
      [] e = "AccessoryNotFoundError" -> async_abort("accessory_not_found_error")
      [] e = "IndexError" -> async_show_form("protocol_error")
      [] OTHER -> _async_step_pair_show_form("pairing_failed")

\* the except clauses, in order; the last one falls through to the pair form
StartErrorResult(e) ==
    CASE e = "BusyError" -> async_show_form("busy_error")
      [] e = "MaxTriesError" -> async_show_form("max_tries_error")
      [] e = "UnavailableError" -> async_abort("already_paired")
      [] e = "AccessoryNotFoundError" -> async_abort("accessory_not_found_error")
      [] e = "IndexError" -> async_show_form("protocol_error")
      [] OTHER -> _async_step_pair_show_form("pairing_failed")

\* what async_find, then discovery.async_start_pairing, raise ("none": both
\* returned)
StartRaises ==
    {"none"} \cup {e : e \in LibraryErrors} \cup {e : e \in LibraryErrors}

\* (mutant of StartedPairing: self.finish_pairing is assigned although the
\* start raised)
StartedPairing_EvenIfRaised(e, fp) == starts + 1

\* "self.finish_pairing = await discovery.async_start_pairing(self.hkid)":
\* assigned only if neither call raised
StartedPairing(e, fp) == IF e = "none" THEN starts + 1 ELSE fp

StartPhase(b1) ==
    IF b1.returns.type # "none"
    THEN {[fp |-> b1.fp, start_calls |-> 0, raised |-> "none",
           result |-> b1.returns]}
    ELSE IF ~EntersStart(b1)
    THEN {[fp |-> b1.fp, start_calls |-> 0, raised |-> "none",
           result |-> _async_step_pair_show_form(b1.error)]}
    ELSE {[fp |-> StartedPairing(e, b1.fp),
           start_calls |-> 1, raised |-> e,
           result |-> IF e = "none" THEN _async_step_pair_show_form(b1.error)
                      ELSE StartErrorResult(e)] : e \in StartRaises}

\* one run of the whole step: the first half ran as b1, the second as b2
PairRun(handler, pair_info, hk, uid, b1, b2) ==
    [controller |-> TRUE,
     pairing |-> (pairing \/ b1.entered),
     pin |-> b1.pin, allow |-> b1.allow, pinResult |-> b1.pinResult,
     finish_pairing |-> b2.fp,
     starts |-> starts + b2.start_calls,
     storage |-> IF b1.stored THEN storage \cup {hk} ELSE storage,
     entries |-> IF b1.created
                 THEN entries \cup {[unique_id |-> uid, hkid |-> hk]}
                 ELSE entries,
     result |-> b2.result,
     inv |-> [handler |-> handler, pair_ran |-> TRUE,
              fp_before |-> finish_pairing,
              allow_key |-> IF b1.entered THEN pair_info.allow ELSE "absent",
              ensure_called |-> b1.entered,
              finish_called |-> b1.finish_called,
              finish_arg |-> b1.finish_arg,
              finish_returned |-> b1.finish_returned,
              raised1 |-> b1.raised,
              start_calls |-> b2.start_calls, raised2 |-> b2.raised,
              stored |-> b1.stored, created |-> b1.created]]

\* every way async_step_pair(pair_info) runs, called by the step `handler`
\* of a flow whose hkid and unique id are hk and uid; the number of start
\* attempts of a flow is capped at MaxStarts
async_step_pair_runs(handler, pair_info, hk, uid) ==
    UNION {{PairRun(handler, pair_info, hk, uid, b1, b2) :
                b2 \in {y \in StartPhase(b1) :
                            y.start_calls = 0 \/ starts < MaxStarts}} :
           b1 \in FinishPhase(pair_info)}

\* the assignments of one run
ApplyPairRun(r) ==
    /\ controller' = r.controller
    /\ pairing' = r.pairing
    /\ pin' = r.pin
    /\ allow' = r.allow
    /\ pinResult' = r.pinResult
    /\ finish_pairing' = r.finish_pairing
    /\ starts' = r.starts
    /\ storage' = r.storage
    /\ entries' = r.entries
    /\ result' = r.result
    /\ step' = NextStep(r.result)
    /\ inv' = r.inv
    /\ UNCHANGED edits

\* async_step_user(None): discover, offer the unpaired Xumo devices
async_step_user_discover ==
    /\ step = "user"
    /\ \E found \in SUBSET Discoverable :
        LET offered == {d \in found : ~d.paired /\ IsXumo(d.name)} IN
        /\ devices' = [n \in {d.name : d \in offered} |->
                          CHOOSE d \in offered : d.name = n]
        /\ result' = IF offered = {} THEN async_abort("no_devices")
                     ELSE async_show_form("user")
        /\ step' = NextStep(result')
    /\ controller' = TRUE
    /\ inv' = [NoInv EXCEPT !.handler = "user"]
    /\ UNCHANGED <<hkid, unique_id, category, finish_pairing, pairing, starts,
                   storage, entries, pinVars>>

\* async_step_user({"device": key}): take the device, go on to the pair step
async_step_user_select ==
    /\ step = "user"
    /\ \E key \in DOMAIN devices :
        LET discovery == devices[key] IN
        /\ category' = discovery.category
        /\ hkid' = discovery.id
        /\ unique_id' = normalize_hkid(discovery.id)
        /\ \E r \in async_step_pair_runs("user", PairInfoNone, discovery.id,
                                         normalize_hkid(discovery.id)) :
               ApplyPairRun(r)
    /\ UNCHANGED devices

async_step_pair ==
    /\ step = "pair"
    /\ hkid # NoId
    /\ \E pair_info \in PairInfos :
       \E r \in async_step_pair_runs("pair", pair_info, hkid, unique_id) :
           ApplyPairRun(r)
    /\ UNCHANGED <<devices, hkid, unique_id, category>>

\* async_step_busy_error, async_step_max_tries_error, async_step_protocol_error
\* with no input: show the form
ErrorSteps == {"busy_error", "max_tries_error", "protocol_error"}

async_step_error_show ==
    /\ step \in ErrorSteps
    /\ result' = async_show_form(step)
    /\ inv' = [NoInv EXCEPT !.handler = step]
    /\ UNCHANGED <<controller, devices, hkid, unique_id, category,
                   finish_pairing, pairing, starts, storage, entries, step,
                   pinVars>>

\* the same steps with an input: "return await self.async_step_pair()"
async_step_error_retry ==
    /\ step \in ErrorSteps
    /\ \E r \in async_step_pair_runs(step, PairInfoNone, hkid, unique_id) :
           ApplyPairRun(r)
    /\ UNCHANGED <<devices, hkid, unique_id, category>>

(***************************************************************************)
(* Specifications                                                          *)
(***************************************************************************)
Init == PinInit /\ FlowInit /\ TvInit

\* the config flow
Next ==
    \/ async_step_user_discover /\ UNCHANGED tvVars
    \/ async_step_user_select /\ UNCHANGED tvVars
    \/ async_step_pair /\ UNCHANGED tvVars
    \/ async_step_error_show /\ UNCHANGED tvVars
    \/ async_step_error_retry /\ UNCHANGED tvVars
Spec == Init /\ [][Next]_vars

\* direct calls of ensure_pin_format
PinNext ==
    \/ TypePin /\ UNCHANGED <<flowVars, tvVars>>
    \/ EditPin /\ UNCHANGED <<flowVars, tvVars>>
    \/ CallEnsurePinFormat /\ UNCHANGED <<flowVars, tvVars>>
SpecPin == Init /\ [][PinNext]_vars

\* the television entity
TvNext ==
    \/ UpdateActive /\ UNCHANGED <<pinVars, flowVars>>
    \/ UpdateMediaState /\ UNCHANGED <<pinVars, flowVars>>
    \/ ReadState /\ UNCHANGED <<pinVars, flowVars>>
SpecTv == Init /\ [][TvNext]_vars


(***************************************************************************)
(* Properties of ensure_pin_format                                         *)
(***************************************************************************)
\* s without its surrounding whitespace
ClaimCore(s) ==
    LET inner == {i \in 1 .. Len(s) : s[i] \notin Whitespace} IN
    IF inner = {} THEN <<>>
    ELSE SubSeq(s, CHOOSE i \in inner : \A j \in inner : i <= j,
                   CHOOSE i \in inner : \A j \in inner : i >= j)

DigitsOf(s) == SelectSeq(s, IsDigit)

\* 8 digits grouped 3-2-3, each of the two dashes present or absent
WellFormedPin(s) ==
    /\ Len(DigitsOf(s)) = 8
    /\ \E b1, b2 \in BOOLEAN : s = Layout(DigitsOf(s), b1, b2)

Called == pinResult.kind # "not_called"

\* C1: a call with a pin that, stripped of surrounding whitespace, is
\* well-formed and whose digits are no insecure code returns the same 8
\* digits written DDD-DD-DDD, whatever allow_insecure_setup_codes is.
C1_PinNormalised ==
    (Called /\ WellFormedPin(ClaimCore(pin))
            /\ DigitsOf(pin) \notin INSECURE_CODES)
        => pinResult = Returned(Layout(DigitsOf(pin), TRUE, TRUE))

\* a pin typed without dashes and with whitespace around it was normalised
C1_Witness ==
    /\ pinResult.kind = "return"
    /\ pin # ClaimCore(pin)
    /\ \A i \in 1 .. Len(pin) : pin[i] # "-"
    /\ pinResult.value # ClaimCore(pin)
    /\ DigitsOf(pin) \notin INSECURE_CODES

\* C2 as stated: every call with a pin that is not itself well-formed raises
\* MalformedPinError.
C2_MalformedRaises_Original ==
    (Called /\ ~WellFormedPin(pin)) => pinResult.kind = "MalformedPinError"

\* C2, amended: every call with a pin that, stripped of surrounding
\* whitespace, is not well-formed raises MalformedPinError and returns
\* nothing, whatever allow_insecure_setup_codes is and whether or not the
\* digits are an insecure code.
C2_MalformedRaises ==
    (Called /\ ~WellFormedPin(ClaimCore(pin)))
        => pinResult = Raised("MalformedPinError")

\* a malformed pin whose digits are an insecure code, insecure codes not
\* allowed: MalformedPinError, not InsecureSetupCode
C2_Witness ==
    /\ pinResult.kind = "MalformedPinError"
    /\ DigitsOf(pin) \in INSECURE_CODES
    /\ ~Truthy(allow)
    /\ pin # <<>>


(***************************************************************************)
(* Properties of the television entity                                     *)
(***************************************************************************)
\* C8: state is a total function of ACTIVE and CURRENT_MEDIA_STATE: OFF when
\* ACTIVE is None or 0; otherwise PLAYING, PAUSED or IDLE for the media
\* states PLAYING (0), PAUSED (1), STOPPED (2); ON for no media state or any
\* other one; never a value outside those five.
C8_StateTotal ==
    tvState.value # "unread" =>
        /\ tvState.value \in {"off", "on", "playing", "paused", "idle"}
        /\ tvState.value =
              IF tvState.active \in {NoValue, <<0>>} THEN "off"
              ELSE IF tvState.media = <<0>> THEN "playing"
              ELSE IF tvState.media = <<1>> THEN "paused"
              ELSE IF tvState.media = <<2>> THEN "idle"
              ELSE "on"

\* an active television whose media state is PLAYING, the falsy number 0
C8_Witness ==
    /\ tvState.value = "playing"
    /\ tvState.active = <<1>>
    /\ tvState.media = <<0>>


(***************************************************************************)
(* Properties of the pairing flow.  They are stated on the state the last  *)
(* step invocation left: inv says what it did, result what it returned.    *)
(***************************************************************************)
IsPairForm(r, error) == r.type = "form" /\ r.step_id = "pair" /\ r.error = error
IsForm(r, step_id) == r.type = "form" /\ r.step_id = step_id
IsAbort(r, reason) == r.type = "abort" /\ r.reason = reason

\* the submitted code was rejected by ensure_pin_format
CodeRejected ==
    inv.ensure_called /\ pinResult.kind \in {"MalformedPinError", "InsecureSetupCode"}

\* C3: for a well-formed pin whose digits are an insecure code,
\* ensure_pin_format raises InsecureSetupCode when
\* allow_insecure_setup_codes is absent, None or False and returns the
\* DDD-DD-DDD form when it is True; and the pair step calls finish_pairing
\* with an insecure code only if the same submission carried a true
\* allow_insecure_setup_codes.
C3_InsecureNeedsAllow ==
    /\ (inv.ensure_called /\ WellFormedPin(ClaimCore(pin))
                          /\ DigitsOf(pin) \in INSECURE_CODES)
           => IF inv.allow_key \in {"absent", "None", "False"}
              THEN pinResult = Raised("InsecureSetupCode")
              ELSE pinResult = Returned(Layout(DigitsOf(pin), TRUE, TRUE))
    /\ (inv.finish_called /\ DigitsOf(inv.finish_arg) \in INSECURE_CODES)
           => inv.allow_key = "True"

\* finish_pairing was called with an insecure code
C3_Witness ==
    /\ inv.finish_called
    /\ DigitsOf(inv.finish_arg) \in INSECURE_CODES
    /\ inv.allow_key = "True"

\* the error the claim gives for an exception of the finish phase
C4ErrorKey(e) ==
    IF e \in {"MalformedPinError", "AuthenticationError"} THEN "authentication_error"
    ELSE IF e = "InsecureSetupCode" THEN "insecure_setup_code"
    ELSE IF e = "UnknownError" THEN "unknown_error"
    ELSE IF e = "MaxPeersError" THEN "max_peers_error"
    ELSE "pairing_failed"

\* the outcome the claim gives for an exception of the start phase
C5Outcome(r, e) ==
    IF e = "BusyError" THEN IsForm(r, "busy_error")
    ELSE IF e = "MaxTriesError" THEN IsForm(r, "max_tries_error")
    ELSE IF e = "IndexError" THEN IsForm(r, "protocol_error")
    ELSE IF e = "UnavailableError" THEN IsAbort(r, "already_paired")
    ELSE IF e = "AccessoryNotFoundError" THEN IsAbort(r, "accessory_not_found_error")
    ELSE IsPairForm(r, "pairing_failed")

\* C4 as stated: the outcome of a pair step in which finishing the pairing
\* raised is fixed by the exception raised.
C4_FinishErrorOutcome_Original ==
    (inv.pair_ran /\ inv.raised1 # "none") =>
        IF inv.raised1 = "AccessoryNotFoundError"
        THEN IsAbort(result, "accessory_not_found_error")
        ELSE IsPairForm(result, C4ErrorKey(inv.raised1))

\* C4, amended: the exception fixes the error the finish phase reports.
\* AccessoryNotFoundError aborts the flow.  MalformedPinError and
\* InsecureSetupCode keep finish_pairing, so the step shows the pair form
\* with their error.  The other exceptions clear finish_pairing, so the same
\* invocation starts a pairing again: the step shows the pair form with the
\* finish error if that start succeeds, and has the outcome of the start
\* error (C5) if it raises.
C4_FinishErrorOutcome ==
    (inv.pair_ran /\ inv.raised1 # "none") =>
        IF inv.raised1 = "AccessoryNotFoundError"
        THEN IsAbort(result, "accessory_not_found_error")
        ELSE /\ inv.raised1 \in {"MalformedPinError", "InsecureSetupCode"}
                    => inv.start_calls = 0
             /\ IF inv.raised2 = "none"
                THEN IsPairForm(result, C4ErrorKey(inv.raised1))
                ELSE C5Outcome(result, inv.raised2)

\* finishing raised UnknownError, the pairing was started again and the pair
\* form shows unknown_error
C4_Witness ==
    /\ inv.pair_ran
    /\ inv.raised1 = "UnknownError"
    /\ inv.start_calls = 1
    /\ inv.raised2 = "none"
    /\ IsPairForm(result, "unknown_error")

\* C5: the outcome of a pair step in which starting the pairing raised is
\* fixed by the exception raised, and finish_pairing is unset afterwards.
C5_StartErrorOutcome ==
    (inv.pair_ran /\ inv.raised2 # "none") =>
        /\ C5Outcome(result, inv.raised2)
        /\ finish_pairing = 0

\* starting raised UnavailableError after finishing had raised
C5_Witness ==
    /\ inv.pair_ran
    /\ inv.raised1 = "AuthenticationError"
    /\ inv.raised2 = "UnavailableError"
    /\ IsAbort(result, "already_paired")

\* the exception of the start phase that leads to each error step
ErrorStepCause(s) ==
    IF s = "busy_error" THEN "BusyError"
    ELSE IF s = "max_tries_error" THEN "MaxTriesError"
    ELSE "IndexError"

\* C6, for one step of the flow: an error step is waited on only after the
\* start phase raised its exception or after the same error step was shown
\* again, and then finish_pairing is unset; a call of an error step either
\* shows its form again and changes nothing else, or runs the pair step
\* without a code: one start attempt, no call of ensure_pin_format or of
\* finish_pairing.
C6_Step ==
    /\ step' \in ErrorSteps =>
        /\ finish_pairing' = 0
        /\ \/ inv'.pair_ran /\ inv'.raised2 = ErrorStepCause(step')
           \/ ~inv'.pair_ran /\ inv'.handler = step' /\ step = step'
    /\ step \in ErrorSteps =>
        /\ inv'.handler = step
        /\ \/ /\ ~inv'.pair_ran
              /\ result' = async_show_form(step)
              /\ UNCHANGED <<controller, devices, hkid, unique_id, category,
                             finish_pairing, pairing, starts, storage,
                             entries, step>>
           \/ /\ inv'.pair_ran
              /\ inv'.start_calls = 1
              /\ starts' = starts + 1
              /\ ~inv'.ensure_called
              /\ ~inv'.finish_called
              /\ UNCHANGED <<storage, entries>>

\* C6: the busy_error, max_tries_error and protocol_error steps are reached
\* only from the start phase of the pair step, with finish_pairing unset;
\* called with no input they show their form again; submitted, they run the
\* pair step without a code, which makes exactly one start attempt and never
\* calls finish_pairing.
C6_ErrorSteps == [][C6_Step]_vars

\* a submitted busy_error step started the pairing
C6_Witness ==
    /\ inv.handler = "busy_error"
    /\ inv.pair_ran
    /\ inv.start_calls = 1
    /\ finish_pairing # 0
    /\ IsPairForm(result, "none")

\* C7: an invocation creates a config entry only after ensure_pin_format
\* accepted the code and finish_pairing, obtained from an earlier start,
\* returned, and after the accessory map was written; an invocation in which
\* ensure_pin_format, finish_pairing or the start of a pairing raises creates
\* no entry and writes no accessory map.
C7_EntryOnlyAfterFinish ==
    /\ inv.created =>
        /\ inv.finish_returned
        /\ inv.fp_before # 0
        /\ pinResult.kind = "return"
        /\ inv.stored
        /\ result.type = "create_entry"
    /\ (entries # {} => hkid \in storage)
    /\ (\/ CodeRejected
        \/ inv.finish_called /\ ~inv.finish_returned
        \/ inv.raised2 # "none")
           => ~inv.created /\ ~inv.stored

\* C9: a pair step that ends with finish_pairing unset has made a start
\* attempt; the pair form is shown with finish_pairing unset only when that
\* attempt raised an exception that no clause names.
C9_StartAttempted ==
    (inv.pair_ran /\ finish_pairing = 0) =>
        /\ inv.start_calls = 1
        /\ inv.raised2 # "none"
        /\ IsForm(result, "pair") =>
              /\ inv.raised2 \notin {"BusyError", "MaxTriesError", "IndexError",
                                     "UnavailableError", "AccessoryNotFoundError"}
              /\ result.error = "pairing_failed"

\* finishing raised MaxPeersError and cleared finish_pairing; the same
\* invocation started a new pairing
C9_Witness ==
    /\ inv.pair_ran
    /\ inv.raised1 = "MaxPeersError"
    /\ inv.fp_before # 0
    /\ inv.start_calls = 1
    /\ finish_pairing # 0
    /\ finish_pairing # inv.fp_before
    /\ IsForm(result, "pair")

\* C10: a pair step whose code ensure_pin_format rejected leaves
\* finish_pairing as it was (set), calls neither finish_pairing nor
\* async_find / async_start_pairing, and shows the pair form again.
C10_RejectedCodeKeepsPairing ==
    (inv.pair_ran /\ CodeRejected) =>
        /\ finish_pairing = inv.fp_before
        /\ finish_pairing # 0
        /\ ~inv.finish_called
        /\ inv.start_calls = 0
        /\ IsForm(result, "pair")
        /\ step = "pair"

\* an insecure code was rejected; the form now offers
\* allow_insecure_setup_codes
C10_Witness ==
    /\ inv.pair_ran
    /\ inv.ensure_called
    /\ pinResult.kind = "InsecureSetupCode"
    /\ result.allow_field
    /\ finish_pairing # 0


\* C11: whenever the flow's hkid is set it is lower case, that is, it equals
\* normalize_hkid(hkid), and so it equals the unique id the flow registered
\* for the device, whatever the case of the id that discovery reported.
C11_HkidLowerCase ==
    hkid # NoId =>
        /\ hkid = normalize_hkid(hkid)
        /\ hkid = unique_id

====
